---- MODULE Spec2Model ----
(***************************************************************************)
(* Support desk: e-mail intake and threading (routes/tickets.py and        *)
(* services/scheduler_service.py), AI drafting and the approval gate       *)
(* (services/approval_service.py).                                         *)
(*                                                                         *)
(* Header values are modelled after parsing: a Message-ID / In-Reply-To is *)
(* the id with the angle brackets stripped, a References header is the     *)
(* list its split() yields.  A missing header is Null.                     *)
(***************************************************************************)
EXTENDS Integers, Sequences, FiniteSets, TLC

VARIABLES tickets, messages, smtp_sent, txn, eq, now, settings, sched, team, acks

vars == <<tickets, messages, smtp_sent, txn, eq, now, settings, sched, team, acks>>

(* ------------------------------ bounds -------------------------------- *)
MaxTickets == 1
MaxMessages == 3

(* ----------------------------- constants ------------------------------ *)
Null == "NULL"
PENDING == "PENDING"
APPROVED == "APPROVED"
REJECTED == "REJECTED"
Stamp == "utcnow"

\* Python truthiness of an optional string
Falsy(s) == s = Null \/ s = ""

(* ------------------------- the mail that arrives ----------------------- *)
\* One conversation m1 <- m2 <- m3 (m4 is a second reply to m2) and an
\* unrelated mail m5 that has the sender and the subject of m1.
\* root is the Message-ID of the first mail of the conversation; no code
\* reads it.
Emails ==
  { [message_id |-> "m1", in_reply_to |-> Null, references |-> <<>>,
     sender_email |-> "a", subject |-> "s", body |-> "b1", root |-> "m1"],
    [message_id |-> "m2", in_reply_to |-> "m1", references |-> <<"m1">>,
     sender_email |-> "a", subject |-> "Re: s", body |-> "b2", root |-> "m1"],
    [message_id |-> "m3", in_reply_to |-> "m2", references |-> <<>>,
     sender_email |-> "a", subject |-> "Re: s", body |-> "b3", root |-> "m1"],
    [message_id |-> "m4", in_reply_to |-> Null, references |-> <<"m1", "m2">>,
     sender_email |-> "a", subject |-> "Re: s", body |-> "b4", root |-> "m1"],
    [message_id |-> "m5", in_reply_to |-> Null, references |-> <<>>,
     sender_email |-> "a", subject |-> "s", body |-> "b5", root |-> "m5"] }

EmailOf(body) == CHOOSE e \in Emails : e.body = body

Mail(mid) == CHOOSE e \in Emails : e.message_id = mid

\* What one IMAP search returns: nothing, one mail, or two mails (the same
\* mail twice, a first mail with its reply, two unrelated first mails)
Batches ==
  {<<>>} \cup {<<e>> : e \in Emails}
         \cup {<<Mail("m1"), Mail("m1")>>, <<Mail("m1"), Mail("m2")>>,
               <<Mail("m1"), Mail("m5")>>}

\* imap_service.extract_thread_id
extract_thread_id(msg) ==
  IF msg.references # <<>>
    THEN Head(msg.references)
    ELSE IF ~Falsy(msg.in_reply_to) THEN msg.in_reply_to ELSE Null

\* imap_service.fetch_unread_emails: the dict built for one mail
EmailData(msg) ==
  [sender_email |-> msg.sender_email,
   subject      |-> msg.subject,
   body         |-> msg.body,
   message_id   |-> msg.message_id,
   in_reply_to  |-> IF Falsy(msg.in_reply_to) THEN Null ELSE msg.in_reply_to,
   thread_id    |-> IF Falsy(extract_thread_id(msg)) THEN msg.message_id
                    ELSE extract_thread_id(msg)]

(* ------------------------------- rows --------------------------------- *)
(* --------------------------------- SLA --------------------------------- *)
\* Time is counted in quarters of an hour; NoTime is the None of a DateTime
\* column.
Hour == 4
NoTime == -1000

\* int() of a quotient: truncation toward zero
TruncDiv(a, b) == IF a >= 0 THEN a \div b ELSE -((-a) \div b)

\* sla_service.SLA_HOURS
SLA_HOURS == [High |-> 4, Medium |-> 8, Low |-> 24]

\* sla_service.PRIORITY_WEIGHTS
PRIORITY_WEIGHTS == [High |-> 100, Medium |-> 50, Low |-> 10]

Urgencies == {"High", "Medium", "Low"}
SettingKey == [High |-> "sla_hours_high", Medium |-> "sla_hours_medium", Low |-> "sla_hours_low"]
SettingKeys == {SettingKey[u] : u \in Urgencies}

\* sla_service.get_sla_hours: S is the settings table, a function from the
\* keys that have a row to their value
get_sla_hours(S) ==
  [u \in Urgencies |-> IF SettingKey[u] \in DOMAIN S THEN S[SettingKey[u]] ELSE SLA_HOURS[u]]

\* calculate_sla_deadline reading SLA_HOURS instead of the settings
CalculateSlaDeadlineDefault(S, urgency, received_at) ==
  LET hours == IF urgency \in Urgencies THEN SLA_HOURS[urgency] ELSE 24
  IN  received_at + hours * Hour

\* sla_service.calculate_sla_deadline
calculate_sla_deadline(S, urgency, received_at) ==
  LET hours == IF urgency \in Urgencies THEN get_sla_hours(S)[urgency] ELSE 24
  IN  received_at + hours * Hour

\* the deadline bonus with its bounds taken inclusively
DeadlineBonusInclusive(sla_deadline, clock) ==
  IF sla_deadline = NoTime THEN 0
  ELSE IF sla_deadline - clock <= 0 THEN 200
  ELSE IF sla_deadline - clock <= 2 * Hour THEN 100
  ELSE IF sla_deadline - clock <= 4 * Hour THEN 50
  ELSE 0

\* the bonus calculate_priority_score adds for the deadline
DeadlineBonus(sla_deadline, clock) ==
  IF sla_deadline = NoTime THEN 0
  ELSE IF sla_deadline - clock < 0 THEN 200
  ELSE IF sla_deadline - clock < 2 * Hour THEN 100
  ELSE IF sla_deadline - clock < 4 * Hour THEN 50
  ELSE 0

\* sla_service.calculate_priority_score, utcnow() being clock
calculate_priority_score(t, clock) ==
  (IF ~Falsy(t.urgency) /\ t.urgency \in Urgencies THEN PRIORITY_WEIGHTS[t.urgency] ELSE 10)
  + (IF t.received_at # NoTime THEN TruncDiv(2 * (clock - t.received_at), Hour) ELSE 0)
  + DeadlineBonus(t.sla_deadline, clock)
  + (IF t.escalation_required THEN 75 ELSE 0)

\* the sla_breached update of update_ticket_sla
UpdateTicketBreach(t, clock) ==
  IF t.sla_deadline # NoTime /\ clock > t.sla_deadline /\ t.sent_at = Null
    THEN TRUE
    ELSE t.sla_breached

\* sla_service.update_ticket_sla on the row t
update_ticket_sla(t, S, clock) ==
  LET t1 == IF ~Falsy(t.urgency) /\ t.received_at # NoTime
              THEN [t EXCEPT !.sla_deadline = calculate_sla_deadline(S, t.urgency, t.received_at)]
              ELSE t
      t2 == [t1 EXCEPT !.priority_score = calculate_priority_score(t1, clock)]
  IN  [t2 EXCEPT !.sla_breached = UpdateTicketBreach(t2, clock)]

\* the rows update_all_sla_status and get_priority_queue select
Open(t) == t.sent_at = Null /\ t.approval_status # REJECTED

\* the loop body of update_all_sla_status on the row t
UpdateAllRow(t, S, clock) ==
  LET t1 == IF ~Falsy(t.urgency) /\ t.received_at # NoTime
              THEN [t EXCEPT !.sla_deadline = calculate_sla_deadline(S, t.urgency, t.received_at),
                             !.sla_breached = (clock > calculate_sla_deadline(S, t.urgency, t.received_at))]
              ELSE t
  IN  [t1 EXCEPT !.priority_score = calculate_priority_score(t1, clock)]

\* sla_service.update_all_sla_status on the table T
UpdateAll(T, S, clock) ==
  [i \in 1..Len(T) |-> IF Open(T[i]) THEN UpdateAllRow(T[i], S, clock) ELSE T[i]]

\* the team_members table: the row at position m has the id m; a deleted
\* row keeps its position, its id is not given again.  NoMember is the None
\* of Ticket.assigned_to.
NoTeam == <<>>
NoMember == 0

\* models.Ticket with the column defaults.  ai_after_approval and
\* sent_since_approval are history fields no code reads: the ticket is
\* APPROVED and an AI step has stored a draft since the approve_ticket call
\* that approved it; a reply of the ticket has been sent since the last
\* approve_ticket call on it.
NewTicket(sender, subject, mid, irt, tid) ==
  [sender_email |-> sender, subject |-> subject, message_id |-> mid,
   in_reply_to |-> irt, thread_id |-> tid,
   approval_status |-> PENDING, ai_processed |-> FALSE,
   draft_response |-> Null, sent_at |-> Null, ai_after_approval |-> FALSE,
   sent_since_approval |-> FALSE,
   received_at |-> now, urgency |-> Null, escalation_required |-> FALSE,
   sla_deadline |-> NoTime, sla_breached |-> FALSE, priority_score |-> 0,
   assigned_to |-> NoMember, assigned_at |-> NoTime]

\* models.TicketMessage
NewMessage(tid, incoming, mid, irt, body) ==
  [ticket_id |-> tid, is_incoming |-> incoming, message_id |-> mid,
   in_reply_to |-> irt, body |-> body]

TicketIds(T) == 1..Len(T)

\* the requests that can be in flight together: two /fetch calls and the
\* background poll of the single scheduler thread
Requests == {"fetch1", "fetch2", "poll"}
Idle == [pc |-> "idle", batch |-> <<>>, resets |-> {}, created |-> 0]

\* the settings table without a row
NoSettings == [k \in {} |-> 0]

\* The module globals of scheduler_service and the threads it has created.
\* thread is _scheduler_thread (NoThread is None); loop[t] is the thread t
\* running _scheduler_loop: where it is, the wait_seconds of its last wait,
\* and two history fields no code reads: stopped (a stop_scheduler call
\* found t running) and late (t started a fetch cycle after that).
\* call is the scheduler call in progress: its step, the step that follows
\* the join of stop_scheduler, the clamped interval_minutes start_scheduler
\* holds, and the argument it was called with (a history field).
MaxThreads == 3
Threads == 1..MaxThreads
NoThread == 0

SchedInit ==
  [running |-> FALSE, interval |-> 5, stop_event |-> FALSE, thread |-> NoThread,
   loop |-> [t \in Threads |-> [pc |-> "unborn", wait_seconds |-> 0,
                                stopped |-> FALSE, late |-> FALSE]],
   call |-> [pc |-> "idle", next |-> "idle", n |-> 5, arg |-> 5]]

Init ==
  /\ tickets = <<>>
  /\ messages = <<>>
  /\ smtp_sent = 0
  /\ txn = [tickets |-> <<>>, messages |-> <<>>, req |-> [r \in Requests |-> Idle]]
  /\ eq = [f |-> {}, p |-> {}]
  /\ now = 0
  /\ settings = NoSettings
  /\ sched = SchedInit
  /\ team = NoTeam
  /\ acks = <<>>

(* ---------------------------- auto-responder --------------------------- *)
\* A template is the list of its parts: "text" is literal text, every other
\* part is the replacement field of that name.  The empty list is the empty
\* string.
DEFAULT_AUTO_RESPONSE_TEMPLATE == <<"text", "ticket_id", "text", "subject", "text">>

\* template.format(ticket_id=..., subject=...) returns (a field of another
\* name raises KeyError)
Formats(template) ==
  \A k \in 1..Len(template) : template[k] \in {"text", "ticket_id", "subject"}

\* auto_responder_service.get_auto_responder_settings; the stored value of
\* auto_responder_enabled is "true" or "false", which lower() leaves alone
get_auto_responder_settings(S) ==
  [enabled  |-> IF "auto_responder_enabled" \in DOMAIN S
                  THEN S["auto_responder_enabled"] = "true" ELSE FALSE,
   template |-> IF "auto_responder_template" \in DOMAIN S /\ S["auto_responder_template"] # <<>>
                  THEN S["auto_responder_template"] ELSE DEFAULT_AUTO_RESPONSE_TEMPLATE]

\* send_acknowledgment without its check of the enabled setting
SendAcknowledgmentAlways(S, to_email, ticket_id) ==
  {<<[ticket_id |-> ticket_id, to_email |-> to_email, delivered |-> ok]>> : ok \in BOOLEAN}

\* auto_responder_service.send_acknowledgment with a session: the
\* acknowledgments the call can hand to send_email, each with what
\* send_email returns; none when the auto-responder is disabled
send_acknowledgment(S, to_email, ticket_id) ==
  IF ~get_auto_responder_settings(S).enabled
    THEN {<<>>}
    ELSE {<<[ticket_id |-> ticket_id, to_email |-> to_email, delivered |-> ok]>> :
            ok \in BOOLEAN}

(* ------------------------------- intake -------------------------------- *)
\* A store is [tickets, messages, created, acks, raised]: the two tables as
\* one session sees them, the handler's running count of created tickets,
\* the acknowledgments it has handed to send_email, and whether an
\* exception has ended the handler.
Store(T, M) == [tickets |-> T, messages |-> M, created |-> 0, acks |-> <<>>, raised |-> FALSE]

\* Query.first() has no ORDER BY: any matching row may be returned.
\* fetch_emails, "Skip if we already have this email"
ExistingByMessageId(T, d) == {i \in TicketIds(T) : T[i].message_id = d.message_id}

\* fetch_emails, "Check if this is a reply to an existing ticket"
ExistingThread(T, d) ==
  IF Falsy(d.in_reply_to)
    THEN {}
    ELSE {i \in TicketIds(T) : \/ T[i].message_id = d.in_reply_to
                               \/ T[i].thread_id = d.thread_id}

\* FetchAppend re-opening the ticket: it clears sent_at too
FetchAppendReopening(S, d, i) ==
  [S EXCEPT !.messages = Append(@, NewMessage(i, TRUE, d.message_id, d.in_reply_to, d.body)),
            !.tickets[i].approval_status = PENDING,
            !.tickets[i].ai_processed = FALSE,
            !.tickets[i].ai_after_approval = FALSE,
            !.tickets[i].sent_at = Null]

\* FetchAppend without the reset of the ticket
FetchAppendNoReset(S, d, i) ==
  [S EXCEPT !.messages = Append(@, NewMessage(i, TRUE, d.message_id, d.in_reply_to, d.body))]

\* fetch_emails, "Add as new message to existing ticket"
FetchAppend(S, d, i) ==
  [S EXCEPT !.messages = Append(@, NewMessage(i, TRUE, d.message_id, d.in_reply_to, d.body)),
            !.tickets[i].approval_status = PENDING,
            !.tickets[i].ai_processed = FALSE,
            !.tickets[i].ai_after_approval = FALSE]

\* FetchCreate that leaves the dedup key of the new ticket empty
FetchCreateNoMessageId(S, d) ==
  [S EXCEPT !.tickets = Append(@, NewTicket(d.sender_email, d.subject, Null,
                                           d.in_reply_to, d.thread_id)),
            !.messages = Append(@, NewMessage(Len(S.tickets) + 1, TRUE, d.message_id,
                                              Null, d.body)),
            !.created = @ + 1]

\* fetch_emails, "Create new ticket" and its initial message
FetchCreate(S, d) ==
  [S EXCEPT !.tickets = Append(@, NewTicket(d.sender_email, d.subject, d.message_id,
                                           d.in_reply_to,
                                           IF Falsy(d.thread_id) THEN d.message_id
                                           ELSE d.thread_id)),
            !.messages = Append(@, NewMessage(Len(S.tickets) + 1, TRUE, d.message_id,
                                              Null, d.body)),
            !.created = @ + 1]

\* fetch_emails, "Send automatic acknowledgment to customer", S being the
\* store with the new ticket: template.format raises, or the call returns
FetchAcknowledge(S, d) ==
  IF get_auto_responder_settings(settings).enabled
     /\ ~Formats(get_auto_responder_settings(settings).template)
    THEN {[S EXCEPT !.raised = TRUE]}
    ELSE {[S EXCEPT !.acks = @ \o a] :
            a \in send_acknowledgment(settings, d.sender_email, Len(S.tickets))}

\* One iteration of the loop of fetch_emails: the stores it can leave
FetchEmail(S, d) ==
  IF S.raised \/ ExistingByMessageId(S.tickets, d) # {}
    THEN {S}
    ELSE IF ExistingThread(S.tickets, d) # {}
      THEN {FetchAppend(S, d, i) : i \in ExistingThread(S.tickets, d)}
      ELSE FetchAcknowledge(FetchCreate(S, d), d)

\* The loop of fetch_emails over the batch IMAP returned
RECURSIVE FetchLoop(_, _)
FetchLoop(SS, batch) ==
  IF batch = <<>>
    THEN SS
    ELSE FetchLoop(UNION {FetchEmail(S, EmailData(Head(batch))) : S \in SS}, Tail(batch))

\* _fetch_and_process_emails_sync, step 2: the lookup by sender and subject
PollExisting(T, d) ==
  {i \in TicketIds(T) : T[i].sender_email = d.sender_email /\ T[i].subject = d.subject}

\* step 2, "Add as new message to existing ticket"
PollAppend(S, d, i) ==
  [S EXCEPT !.messages = Append(@, NewMessage(i, TRUE, Null, Null, d.body))]

\* step 2, "Create new ticket" and its initial message
PollCreate(S, d) ==
  [S EXCEPT !.tickets = Append(@, NewTicket(d.sender_email, d.subject, Null, Null,
                                           d.thread_id)),
            !.messages = Append(@, NewMessage(Len(S.tickets) + 1, TRUE, Null, Null, d.body)),
            !.created = @ + 1]

\* One iteration of the loop of step 2
PollEmail(S, d) ==
  IF PollExisting(S.tickets, d) # {}
    THEN {PollAppend(S, d, i) : i \in PollExisting(S.tickets, d)}
    ELSE {PollCreate(S, d)}

RECURSIVE PollLoop(_, _)
PollLoop(SS, batch) ==
  IF batch = <<>>
    THEN SS
    ELSE PollLoop(UNION {PollEmail(S, EmailData(Head(batch))) : S \in SS}, Tail(batch))

(* ----------------------------- AI processing --------------------------- *)
\* ai_service.process_ticket returns None on any failure, else a result
\* with the urgency and the draft the model wrote
AIFailed == [ok |-> FALSE, draft |-> Null, urgency |-> Null]
AIResult(draft, urgency) == [ok |-> TRUE, draft |-> draft, urgency |-> urgency]
AIResults == {AIFailed, AIResult("ai", "High")}

\* the incoming messages of a ticket
IncomingOf(M, i) == {k \in 1..Len(M) : M[k].ticket_id = i /\ M[k].is_incoming}

\* the assignments made from a non-None result
StoreAIResult(t, r) ==
  [t EXCEPT !.urgency = r.urgency, !.draft_response = r.draft, !.ai_processed = TRUE,
            !.ai_after_approval = (t.approval_status = APPROVED)]

Unprocessed(T) == {i \in TicketIds(T) : ~T[i].ai_processed}

\* the AI step marking a ticket processed although its AI call failed
ProcessUnprocessedGivingUp(T, M, f) ==
  [i \in TicketIds(T) |->
     IF i \in DOMAIN f /\ IncomingOf(M, i) # {}
       THEN IF f[i] # AIFailed
              THEN update_ticket_sla(StoreAIResult(T[i], f[i]), settings, now)
              ELSE [T[i] EXCEPT !.ai_processed = TRUE]
       ELSE T[i]]

\* process_all_tickets / step 3 of the background poll: f gives the AI
\* result of every unprocessed ticket
ProcessUnprocessed(T, M, f) ==
  [i \in TicketIds(T) |->
     IF i \in DOMAIN f /\ IncomingOf(M, i) # {} /\ f[i] # AIFailed
       THEN update_ticket_sla(StoreAIResult(T[i], f[i]), settings, now)
       ELSE T[i]]

(* ------------------------------ operations ----------------------------- *)
\* POST /api/tickets/fetch; created is the count it returns.  An exception
\* ends the request before db.commit(): the session is closed, its rows are
\* rolled back and no count is returned (created is 0 then).
fetch_emails(batch, created) ==
  \E S \in FetchLoop({Store(tickets, messages)}, batch) :
    /\ created = IF S.raised THEN 0 ELSE S.created
    /\ tickets' = IF S.raised THEN tickets ELSE S.tickets
    /\ messages' = IF S.raised THEN messages ELSE S.messages
    /\ acks' = acks \o S.acks
    /\ UNCHANGED <<smtp_sent, txn, eq, now, settings, sched, team>>

\* scheduler_service._fetch_and_process_emails_sync; results is what the AI
\* service can answer during the cycle
fetch_and_process_emails_sync(batch, results) ==
  \E S \in PollLoop({Store(tickets, messages)}, batch) :
    /\ \E f \in [Unprocessed(S.tickets) -> results] :
         tickets' = ProcessUnprocessed(S.tickets, S.messages, f)
    /\ messages' = S.messages
    /\ UNCHANGED <<smtp_sent, txn, eq, now, settings, sched, team, acks>>

\* POST /api/tickets/{ticket_id}/process; r is what process_ticket returns
process_single_ticket(id, r) ==
  /\ IF id \in TicketIds(tickets) /\ IncomingOf(messages, id) # {} /\ r # AIFailed
       THEN tickets' = [tickets EXCEPT ![id] = update_ticket_sla(StoreAIResult(@, r), settings, now)]
       ELSE UNCHANGED tickets
  /\ UNCHANGED <<messages, smtp_sent, txn, eq, now, settings, sched, team, acks>>

\* POST /api/tickets/process-all
process_all_tickets ==
  /\ \E f \in [Unprocessed(tickets) -> AIResults] :
       tickets' = ProcessUnprocessed(tickets, messages, f)
  /\ UNCHANGED <<messages, smtp_sent, txn, eq, now, settings, sched, team, acks>>

\* update_draft sending the ticket back to review
UpdateDraftResetting(id, text, status) ==
  /\ IF id \in TicketIds(tickets)
       THEN /\ status = 200
            /\ tickets' = [tickets EXCEPT ![id].draft_response = text,
                                            ![id].approval_status = PENDING]
       ELSE status = 404 /\ UNCHANGED tickets
  /\ UNCHANGED <<messages, smtp_sent, txn, eq, now, settings, sched, team, acks>>

\* PUT /api/tickets/{ticket_id}/draft; status is the HTTP status of the
\* answer
update_draft(id, text, status) ==
  /\ IF id \in TicketIds(tickets)
       THEN /\ status = 200
            /\ tickets' = [tickets EXCEPT ![id].draft_response = text]
       ELSE status = 404 /\ UNCHANGED tickets
  /\ UNCHANGED <<messages, smtp_sent, txn, eq, now, settings, sched, team, acks>>

\* approval_service.approve_ticket
approve_ticket(id) ==
  /\ IF id \in TicketIds(tickets)
       THEN tickets' = [tickets EXCEPT ![id].approval_status = APPROVED,
                                       ![id].ai_after_approval = FALSE,
                                       ![id].sent_since_approval = FALSE]
       ELSE UNCHANGED tickets
  /\ UNCHANGED <<messages, smtp_sent, txn, eq, now, settings, sched, team, acks>>

\* approval_service.reject_ticket
reject_ticket(id) ==
  /\ IF id \in TicketIds(tickets)
       THEN tickets' = [tickets EXCEPT ![id].approval_status = REJECTED,
                                       ![id].ai_after_approval = FALSE]
       ELSE UNCHANGED tickets
  /\ UNCHANGED <<messages, smtp_sent, txn, eq, now, settings, sched, team, acks>>

\* send_approved_response without its approval_status check
SendRefusedNoStatusCheck(id) ==
  \/ id \notin TicketIds(tickets)
  \/ Falsy(tickets[id].draft_response)

\* the three early returns of send_approved_response
SendRefused(id) ==
  \/ id \notin TicketIds(tickets)
  \/ tickets[id].approval_status # APPROVED
  \/ Falsy(tickets[id].draft_response)

\* send_approved_response going on as if send_email had returned True
SendIgnoringFailure(id, success, result) ==
  /\ result = ~SendRefused(id)
  /\ smtp_sent' = IF SendRefused(id) \/ ~success THEN smtp_sent ELSE smtp_sent + 1
  /\ IF result
       THEN /\ tickets' = [tickets EXCEPT ![id].sent_at = Stamp,
                                            ![id].sent_since_approval = TRUE]
            /\ messages' = Append(messages,
                 NewMessage(id, FALSE, Null, tickets[id].message_id,
                            tickets[id].draft_response))
       ELSE UNCHANGED <<tickets, messages>>
  /\ UNCHANGED <<txn, eq, now, settings, sched, team, acks>>

\* approval_service.send_approved_response; success is what send_email
\* returns, result is what the function returns
send_approved_response(id, success, result) ==
  /\ result = (~SendRefused(id) /\ success)
  /\ smtp_sent' = IF SendRefused(id) \/ ~success THEN smtp_sent ELSE smtp_sent + 1
  /\ IF result
       THEN /\ tickets' = [tickets EXCEPT ![id].sent_at = Stamp,
                                            ![id].sent_since_approval = TRUE]
            /\ messages' = Append(messages,
                 NewMessage(id, FALSE, Null, tickets[id].message_id,
                            tickets[id].draft_response))
       ELSE UNCHANGED <<tickets, messages>>
  /\ UNCHANGED <<txn, eq, now, settings, sched, team, acks>>

(* --------------------------- the workflow spec ------------------------- *)
\* ticket ids a request can name: every row that can exist and one that cannot
IdInputs == 1..(MaxTickets + 1)
DraftInputs == {"hum", ""}
StatusCodes == {200, 404}

\* the tables stay within the bounds of the model
Bounded(maxT, maxM) == Len(tickets') <= maxT /\ Len(messages') <= maxM

\* the workflow of one conversation: /fetch brings a first mail or its
\* reply, one mail per IMAP search; the background poll finds the inbox
\* empty or the first mail in it
WorkflowEmails == {Mail("m1"), Mail("m2")}
WorkflowBatches == {<<e>> : e \in WorkflowEmails}
WorkflowPollBatches == {<<>>, <<Mail("m1")>>}

Next ==
  \/ \E batch \in WorkflowBatches, n \in 0..1 :
       fetch_emails(batch, n) /\ Bounded(MaxTickets, MaxMessages)
  \/ \E batch \in WorkflowPollBatches :
       fetch_and_process_emails_sync(batch, AIResults) /\ Bounded(MaxTickets, MaxMessages)
  \/ \E id \in IdInputs, r \in AIResults : process_single_ticket(id, r)
  \/ process_all_tickets
  \/ \E id \in IdInputs, text \in DraftInputs, status \in StatusCodes :
       update_draft(id, text, status)
  \/ \E id \in IdInputs : approve_ticket(id)
  \/ \E id \in IdInputs : reject_ticket(id)
  \/ \E id \in IdInputs, success \in BOOLEAN, result \in BOOLEAN :
       send_approved_response(id, success, result) /\ Bounded(MaxTickets, MaxMessages)

Spec == Init /\ [][Next]_vars

(* ------------------------- claims on the workflow ---------------------- *)
\* a step appended an outgoing message to ticket i
SentNow(i) ==
  /\ Len(messages') = Len(messages) + 1
  /\ ~messages'[Len(messages')].is_incoming
  /\ messages'[Len(messages')].ticket_id = i

\* a step appended an incoming message to the existing ticket i
FollowUpNow(i) ==
  /\ i \in TicketIds(tickets)
  /\ Len(messages') = Len(messages) + 1
  /\ messages'[Len(messages')].is_incoming
  /\ messages'[Len(messages')].ticket_id = i

\* ticket id is APPROVED with a non-empty draft before the step
ReadyToSend(id) ==
  /\ id \in TicketIds(tickets)
  /\ tickets[id].approval_status = APPROVED
  /\ ~Falsy(tickets[id].draft_response)

\* ticket i got its sent_at, an outgoing message or an e-mail in this step
Released(i) ==
  \/ SentNow(i)
  \/ /\ i \in TicketIds(tickets)
     /\ tickets'[i].sent_at # tickets[i].sent_at

\* C1: approval gate.  A call of send_approved_response returns True, sends
\* an e-mail, sets sent_at and records an outgoing message only when the
\* ticket is APPROVED with a non-empty draft at the call; in every other
\* case it returns False and leaves tickets, messages and the mailer alone.
\* No step of any operation releases a reply for a ticket that is not ready.
ApprovalGate ==
  [][ /\ \A id \in IdInputs, success \in BOOLEAN, result \in BOOLEAN :
           send_approved_response(id, success, result) =>
             /\ result => ReadyToSend(id) /\ smtp_sent' = smtp_sent + 1
                          /\ tickets'[id].sent_at = Stamp /\ SentNow(id)
             /\ ~ReadyToSend(id) =>
                  ~result /\ UNCHANGED <<tickets, messages, smtp_sent>>
      /\ \A i \in TicketIds(tickets') : Released(i) => ReadyToSend(i)
      /\ smtp_sent' # smtp_sent => \E i \in TicketIds(tickets) : ReadyToSend(i) /\ SentNow(i)
    ]_vars

\* C1 witness: a reply went out for an approved ticket
ApprovalGateWitness ==
  \E i \in TicketIds(tickets) :
    /\ tickets[i].sent_at = Stamp
    /\ tickets[i].approval_status = APPROVED
    /\ smtp_sent = 1
    /\ \E k \in 1..Len(messages) : ~messages[k].is_incoming /\ messages[k].ticket_id = i

\* C2: human sign-off covers the sent text.  Whenever a reply is sent for a
\* ticket, no AI step has replaced the draft since the approval that
\* releases it.
SignoffCoversSentDraft ==
  [][\A i \in TicketIds(tickets) : SentNow(i) => ~tickets[i].ai_after_approval]_vars

\* a message_id is stored, on a ticket or on a message of a thread
Stored(mid) ==
  \/ \E i \in TicketIds(tickets) : tickets[i].message_id = mid
  \/ \E k \in 1..Len(messages) : messages[k].message_id = mid

\* C3: idempotent re-fetch.  /fetch of a mail whose message_id is stored on a
\* Ticket or on a TicketMessage creates nothing, appends nothing and changes
\* no ticket field.
RefetchIsSkipped ==
  [][\A batch \in WorkflowBatches, n \in 0..1 :
       (fetch_emails(batch, n) /\ Stored(batch[1].message_id)) =>
          n = 0 /\ UNCHANGED <<tickets, messages>>]_vars

\* C5: reset on reply.  A /fetch that appends a mail to an existing ticket
\* leaves that ticket PENDING and unprocessed whatever it was before; a
\* ticket becomes APPROVED again only by approve_ticket, and a reply is
\* sent only for a ticket that is APPROVED.
ResetOnReply ==
  [][ /\ \A i \in TicketIds(tickets) :
           (FollowUpNow(i) /\ \E batch \in WorkflowBatches, n \in 0..1 : fetch_emails(batch, n))
             => /\ tickets'[i].approval_status = PENDING
                /\ ~tickets'[i].ai_processed
      /\ \A i \in TicketIds(tickets) :
           /\ (tickets[i].approval_status # APPROVED /\ tickets'[i].approval_status = APPROVED)
                => approve_ticket(i)
           /\ SentNow(i) => tickets[i].approval_status = APPROVED
    ]_vars

\* C5 witness: a follow-up was appended by /fetch to a ticket whose reply had
\* been sent, and the ticket is pending and unprocessed again
ResetOnReplyWitness ==
  \E i \in TicketIds(tickets) :
    /\ tickets[i].sent_at = Stamp
    /\ tickets[i].draft_response = "ai"
    /\ tickets[i].approval_status = PENDING
    /\ ~tickets[i].ai_processed
    /\ Len(messages) = 3
    /\ ~messages[2].is_incoming
    /\ messages[3].is_incoming /\ messages[3].ticket_id = i /\ messages[3].message_id = "m2"

\* C9: duplicate-safe delivery.  However often and over whichever intake
\* path a mail is delivered, the store holds at most one incoming record
\* made from it.
DuplicateSafe ==
  \A e \in Emails :
    Cardinality({k \in 1..Len(messages) :
                   messages[k].is_incoming /\ messages[k].body = e.body}) <= 1

(* ---------------------------- the intake spec -------------------------- *)
\* Both intake paths over every mail, alone and in batches of two, while
\* the AI service is unavailable (process_ticket returns None).
IntakeMaxTickets == MaxTickets + 1

NextIntake ==
  \/ \E batch \in Batches, n \in 0..2 :
       fetch_emails(batch, n) /\ Bounded(IntakeMaxTickets, MaxMessages)
  \/ \E batch \in Batches :
       fetch_and_process_emails_sync(batch, {AIFailed}) /\ Bounded(IntakeMaxTickets, MaxMessages)

SpecIntake == Init /\ [][NextIntake]_vars

\* the thread id of a mail as the design states it: first entry of
\* References, else In-Reply-To, else its own message_id
ComputedThreadId(e) ==
  IF e.references # <<>> THEN e.references[1]
  ELSE IF e.in_reply_to # Null THEN e.in_reply_to
  ELSE e.message_id

\* the tickets the design's lookup finds for a mail
Matching(e) ==
  {i \in TicketIds(tickets) :
     \/ e.in_reply_to # Null /\ tickets[i].message_id = e.in_reply_to
     \/ tickets[i].thread_id = ComputedThreadId(e)}

\* C4: thread lookup.  A fetched mail whose message_id is not stored and
\* for which some ticket has message_id = in_reply_to or thread_id = the
\* computed thread id is appended to such a ticket, and no ticket is created.
ThreadLookup ==
  [][\A e \in Emails, n \in 0..1 :
       (fetch_emails(<<e>>, n) /\ ~Stored(e.message_id) /\ Matching(e) # {}) =>
          /\ Len(tickets') = Len(tickets)
          /\ \E i \in Matching(e) : FollowUpNow(i)]_vars

RootMessage(i) ==
  messages[CHOOSE k \in 1..Len(messages) :
             /\ messages[k].ticket_id = i
             /\ \A j \in 1..(k - 1) : messages[j].ticket_id # i]

\* C8: thread_id invariant.  Every ticket's thread_id is the message_id of
\* the first mail of the conversation of the mail that opened the ticket.
ThreadIdIsRoot ==
  \A i \in TicketIds(tickets) :
    tickets[i].thread_id = EmailOf(RootMessage(i).body).root

(* ------------------------- the equivalence spec ------------------------ *)
\* The same mails are handed one by one to the loop of /fetch and to step 2
\* of the background poll, both started on the empty store; eq.f and eq.p
\* are the stores each loop can have produced.
InitEquiv ==
  /\ tickets = <<>>
  /\ messages = <<>>
  /\ smtp_sent = 0
  /\ txn = [tickets |-> <<>>, messages |-> <<>>, req |-> [r \in Requests |-> Idle]]
  /\ eq = [f |-> {Store(<<>>, <<>>)}, p |-> {Store(<<>>, <<>>)}]
  /\ now = 0
  /\ settings = NoSettings
  /\ sched = SchedInit
  /\ team = NoTeam
  /\ acks = <<>>

EquivDeliver(e) ==
  /\ eq' = [f |-> UNION {FetchEmail(S, EmailData(e)) : S \in eq.f},
            p |-> UNION {PollEmail(S, EmailData(e)) : S \in eq.p}]
  /\ \A S \in eq'.f \cup eq'.p : Len(S.messages) <= MaxMessages
  /\ UNCHANGED <<tickets, messages, smtp_sent, txn, now, settings, sched, team, acks>>

NextEquiv == \E e \in Emails : EquivDeliver(e)

SpecEquiv == InitEquiv /\ [][NextEquiv]_vars

\* what thread resolution decides: the tickets with their flags and the
\* ticket each mail was filed under
Resolution(S) ==
  [tickets |-> [i \in TicketIds(S.tickets) |->
                  [sender_email |-> S.tickets[i].sender_email,
                   subject |-> S.tickets[i].subject,
                   approval_status |-> S.tickets[i].approval_status,
                   ai_processed |-> S.tickets[i].ai_processed]],
   filed |-> [k \in 1..Len(S.messages) |->
                [body |-> S.messages[k].body, ticket_id |-> S.messages[k].ticket_id]]]

\* C10: both intake paths resolve threads alike.  From the same store and
\* the same mails, /fetch and the background poll leave the same tickets,
\* the same filing of mails under tickets and the same flags.
SameThreadResolution ==
  {Resolution(S) : S \in eq.f} = {Resolution(S) : S \in eq.p}

(* ------------------------- the concurrency spec ------------------------ *)
\* Requests run in sessions of their own (database.get_db, SessionLocal) on
\* PostgreSQL: a session reads the committed rows and the rows it has
\* flushed itself; db.commit() publishes its rows; an error on the way rolls
\* them back.  txn.tickets and txn.messages hold every row ever inserted,
\* [row, owner]: owner is Committed, RolledBack or the request that has
\* flushed the row and not yet committed.  A row keeps its position, which
\* is its id.
Committed == "committed"
RolledBack == "rolled_back"

\* what a session reads in place of a row it cannot see
Hidden ==
  [NewTicket("hidden", "hidden", "hidden", "hidden", "hidden") EXCEPT !.ai_processed = TRUE]

\* the tickets table as request r reads it
View(r) ==
  [i \in 1..Len(txn.tickets) |->
     IF txn.tickets[i].owner \in {Committed, r} THEN txn.tickets[i].row ELSE Hidden]

MessageRows == [k \in 1..Len(txn.messages) |-> txn.messages[k].row]

\* models.Ticket.message_id, unique=True without the index: nothing collides
UniqueIndexDropped(r, mid) == {}

\* models.Ticket.message_id, unique=True: the rows an INSERT of message_id
\* mid by request r collides with (NULL never collides)
UniqueIndexHolders(r, mid) ==
  {i \in 1..Len(txn.tickets) :
     /\ mid # Null
     /\ txn.tickets[i].row.message_id = mid
     /\ txn.tickets[i].owner \notin {RolledBack, r}}

\* a request starts: fetch_unread_emails returns batch
ConcBegin(r, batch) ==
  /\ txn.req[r].pc = "idle"
  /\ txn' = [txn EXCEPT !.req[r] = [pc |-> "query", batch |-> batch, resets |-> {},
                                    created |-> 0]]
  /\ UNCHANGED <<tickets, messages, smtp_sent, eq, now, settings, sched, team, acks>>

\* /fetch, one mail: the two queries; a reply is added to the session, a new
\* conversation goes on to the INSERT
ConcFetchQuery(r) ==
  /\ r \in {"fetch1", "fetch2"}
  /\ txn.req[r].pc = "query"
  /\ txn.req[r].batch # <<>>
  /\ LET d == EmailData(Head(txn.req[r].batch))
         V == View(r)
     IN IF ExistingByMessageId(V, d) # {}
          THEN txn' = [txn EXCEPT !.req[r].batch = Tail(@)]
          ELSE IF ExistingThread(V, d) # {}
            THEN \E i \in ExistingThread(V, d) :
                   txn' = [txn EXCEPT
                     !.messages = Append(@, [row |-> NewMessage(i, TRUE, d.message_id,
                                                               d.in_reply_to, d.body),
                                             owner |-> r]),
                     !.req[r].resets = @ \cup {i},
                     !.req[r].batch = Tail(@)]
            ELSE txn' = [txn EXCEPT !.req[r].pc = "insert"]
  /\ UNCHANGED <<tickets, messages, smtp_sent, eq, now, settings, sched, team, acks>>

\* /fetch, db.add(ticket); db.flush(): the INSERT waits while another open
\* session holds the same message_id, fails with IntegrityError (the
\* request ends, the session is closed and rolled back) when a committed row
\* holds it, and else adds the ticket and its root message
ConcFetchInsert(r) ==
  /\ txn.req[r].pc = "insert"
  /\ LET d == EmailData(Head(txn.req[r].batch))
         holders == UniqueIndexHolders(r, d.message_id)
         S == FetchCreate([Store(View(r), MessageRows) EXCEPT
                             !.created = txn.req[r].created], d)
     IN /\ \A i \in holders : txn.tickets[i].owner = Committed
        /\ IF holders # {}
             THEN txn' = [txn EXCEPT
                    !.tickets = [i \in DOMAIN @ |->
                                   IF @[i].owner = r THEN [@[i] EXCEPT !.owner = RolledBack]
                                   ELSE @[i]],
                    !.messages = [k \in DOMAIN @ |->
                                   IF @[k].owner = r THEN [@[k] EXCEPT !.owner = RolledBack]
                                   ELSE @[k]],
                    !.req[r] = Idle]
             ELSE txn' = [txn EXCEPT
                    !.tickets = Append(@, [row |-> S.tickets[Len(S.tickets)], owner |-> r]),
                    !.messages = Append(@, [row |-> S.messages[Len(S.messages)], owner |-> r]),
                    !.req[r].created = S.created,
                    !.req[r].batch = Tail(@),
                    !.req[r].pc = "query"]
  /\ UNCHANGED <<tickets, messages, smtp_sent, eq, now, settings, sched, team, acks>>

\* background poll, one mail of step 2: its INSERT carries no message_id
ConcPollEmail(r) ==
  /\ r = "poll"
  /\ txn.req[r].pc = "query"
  /\ txn.req[r].batch # <<>>
  /\ LET d == EmailData(Head(txn.req[r].batch))
         V == View(r)
     IN \E S \in PollEmail([Store(V, MessageRows) EXCEPT
                               !.created = txn.req[r].created], d) :
          txn' = [txn EXCEPT
            !.tickets = IF Len(S.tickets) > Len(V)
                          THEN Append(@, [row |-> S.tickets[Len(S.tickets)], owner |-> r])
                          ELSE @,
            !.messages = Append(@, [row |-> S.messages[Len(S.messages)], owner |-> r]),
            !.req[r].created = S.created,
            !.req[r].batch = Tail(@)]
  /\ UNCHANGED <<tickets, messages, smtp_sent, eq, now, settings, sched, team, acks>>

\* db.commit() at the end of the loop: the rows of r become visible, the
\* resets of /fetch are written; the poll then runs its AI step, f being
\* the AI result of every ticket it finds unprocessed
ConcCommit(r, results) ==
  /\ txn.req[r].pc = "query"
  /\ txn.req[r].batch = <<>>
  /\ LET published == [i \in 1..Len(txn.tickets) |->
                         [row |-> IF i \in txn.req[r].resets
                                    THEN [txn.tickets[i].row EXCEPT
                                            !.approval_status = PENDING,
                                            !.ai_processed = FALSE,
                                            !.ai_after_approval = FALSE]
                                    ELSE txn.tickets[i].row,
                          owner |-> IF txn.tickets[i].owner = r THEN Committed
                                    ELSE txn.tickets[i].owner]]
         visible == [i \in 1..Len(published) |->
                       IF published[i].owner = Committed THEN published[i].row ELSE Hidden]
     IN \E f \in [IF r = "poll" THEN Unprocessed(visible) ELSE {} -> results] :
          txn' = [txn EXCEPT
            !.tickets = [i \in 1..Len(published) |->
                           [published[i] EXCEPT
                              !.row = IF published[i].owner = Committed
                                        THEN ProcessUnprocessed(visible, MessageRows, f)[i]
                                        ELSE @]],
            !.messages = [k \in DOMAIN @ |->
                            IF @[k].owner = r THEN [@[k] EXCEPT !.owner = Committed]
                            ELSE @[k]],
            !.req[r] = Idle]
  /\ UNCHANGED <<tickets, messages, smtp_sent, eq, now, settings, sched, team, acks>>

\* the batches the concurrent requests are given
ConcBatches ==
  {<<Mail("m2")>>, <<Mail("m5")>>,
   <<Mail("m1"), Mail("m1")>>, <<Mail("m1"), Mail("m5")>>}

\* the tables stay within the bounds of the model
ConcBounded == Len(txn'.tickets) <= IntakeMaxTickets /\ Len(txn'.messages) <= IntakeMaxTickets

NextConc ==
  \/ \E r \in Requests, batch \in ConcBatches : ConcBegin(r, batch)
  \/ \E r \in Requests : ConcFetchQuery(r) /\ ConcBounded
  \/ \E r \in Requests : ConcFetchInsert(r) /\ ConcBounded
  \/ \E r \in Requests : ConcPollEmail(r) /\ ConcBounded
  \/ \E r \in Requests : ConcCommit(r, {AIFailed})

SpecConc == Init /\ [][NextConc]_vars

\* C7: message_id is unique across tickets.  No two ticket rows that are
\* committed or held by an open session carry the same non-null message_id.
MessageIdUnique ==
  \A i, j \in 1..Len(txn.tickets) :
    (/\ i # j
     /\ txn.tickets[i].owner # RolledBack
     /\ txn.tickets[j].owner # RolledBack
     /\ txn.tickets[i].row.message_id # Null)
      => txn.tickets[i].row.message_id # txn.tickets[j].row.message_id

\* C7 witness: two /fetch calls raced on one mail; the first has committed
\* its ticket and the second, having found none, is at its INSERT
MessageIdUniqueWitness ==
  \E r \in {"fetch1", "fetch2"} :
    /\ txn.req[r].pc = "insert"
    /\ \E i \in 1..Len(txn.tickets) :
         /\ txn.tickets[i].owner = Committed
         /\ txn.tickets[i].row.message_id = Head(txn.req[r].batch).message_id

(* --------------------------- the priority score ------------------------ *)
\* calculate_priority_score applied to one ticket row whose urgency,
\* received_at, sla_deadline and escalation_required are drawn from the
\* sets below, at a clock drawn from ScoreClocks.
ScoreUrgencies == Urgencies \cup {Null, "", "Urgent"}
ScoreClocks == {5, 21}
ScoreReceived == {NoTime, 0, 2, 24}
ScoreDeadlines == {NoTime, 4, 5, 6, 12, 13, 20, 21, 22, 28, 29, 36, 37}

InitScore ==
  /\ now \in ScoreClocks
  /\ \E u \in ScoreUrgencies, r \in ScoreReceived, d \in ScoreDeadlines, e \in BOOLEAN :
       tickets = << [NewTicket("a", "s", "m1", Null, "m1") EXCEPT
                      !.urgency = u, !.received_at = r,
                      !.sla_deadline = d, !.escalation_required = e] >>
  /\ messages = <<>>
  /\ smtp_sent = 0
  /\ txn = [tickets |-> <<>>, messages |-> <<>>, req |-> [r \in Requests |-> Idle]]
  /\ eq = [f |-> {}, p |-> {}]
  /\ settings = NoSettings
  /\ sched = SchedInit
  /\ team = NoTeam
  /\ acks = <<>>

\* ticket.priority_score = calculate_priority_score(ticket)
ScoreTicket ==
  /\ tickets' = [tickets EXCEPT ![1].priority_score = calculate_priority_score(tickets[1], now)]
  /\ UNCHANGED <<messages, smtp_sent, txn, eq, now, settings, sched, team, acks>>

NextScore == ScoreTicket

SpecScore == InitScore /\ [][NextScore]_vars

\* the score as the design states it, in hours
UrgencyWeight(u) ==
  CASE u = "High" -> 100
    [] u = "Medium" -> 50
    [] OTHER -> 10

StatedDeadlineBonus(t, clock) ==
  CASE t.sla_deadline = NoTime -> 0
    [] t.sla_deadline # NoTime /\ clock > t.sla_deadline -> 200
    [] t.sla_deadline # NoTime /\ clock <= t.sla_deadline
         /\ t.sla_deadline - clock < 2 * Hour -> 100
    [] t.sla_deadline # NoTime /\ t.sla_deadline - clock >= 2 * Hour
         /\ t.sla_deadline - clock < 4 * Hour -> 50
    [] OTHER -> 0

StatedScore(t, clock) ==
  UrgencyWeight(t.urgency)
  + TruncDiv(2 * (clock - t.received_at), Hour)
  + StatedDeadlineBonus(t, clock)
  + (IF t.escalation_required THEN 75 ELSE 0)

\* C11: the priority score of a ticket that has a received_at is
\* urgency_weight + int(2 * hours_waiting) + deadline_bonus +
\* escalation_bonus, with weight 100 / 50 / 10 (10 for a missing or
\* unknown urgency), bonus 200 past the deadline, 100 below 2 hours left
\* (0 hours left included), 50 below 4 hours left (2 hours left included),
\* 0 from 4 hours left on or without a deadline, and 75 for an escalation.
PriorityScore ==
  [][ScoreTicket /\ tickets[1].received_at # NoTime
       => tickets'[1].priority_score = StatedScore(tickets[1], now)]_vars

\* C11 witness: a scored High ticket with an escalation, 1.25 hours old,
\* exactly at its deadline: 100 + 2 + 100 + 75
PriorityScoreWitness ==
  /\ Len(tickets) = 1
  /\ tickets[1].urgency = "High"
  /\ tickets[1].escalation_required
  /\ now = 5 /\ tickets[1].received_at = 0 /\ tickets[1].sla_deadline = 5
  /\ tickets[1].priority_score = 277

(* ------------------------------ the SLA spec --------------------------- *)
\* POST /api/tickets/sla/settings; request gives the three hours
update_sla_settings(request) ==
  /\ settings' = [k \in DOMAIN settings \cup SettingKeys |->
                    IF k \in SettingKeys THEN request[k] ELSE settings[k]]
  /\ UNCHANGED <<tickets, messages, smtp_sent, txn, eq, now, sched, team, acks>>

\* POST /api/tickets/sla/refresh
refresh_sla_status ==
  /\ tickets' = UpdateAll(tickets, settings, now)
  /\ UNCHANGED <<messages, smtp_sent, txn, eq, now, settings, sched, team, acks>>

Min(a, b) == IF a <= b THEN a ELSE b

OpenIds(T) == {i \in 1..Len(T) : Open(T[i])}

\* ORDER BY priority_score ascending
OrderByScoreAsc(T) ==
  {p \in [1..Cardinality(OpenIds(T)) -> OpenIds(T)] :
     /\ \A a, b \in DOMAIN p : a # b => p[a] # p[b]
     /\ \A a, b \in DOMAIN p : a < b => T[p[a]].priority_score <= T[p[b]].priority_score}

\* the rows ORDER BY priority_score DESC can yield for the open tickets:
\* every arrangement in which no row precedes one with a higher score
OrderByScoreDesc(T) ==
  {p \in [1..Cardinality(OpenIds(T)) -> OpenIds(T)] :
     /\ \A a, b \in DOMAIN p : a # b => p[a] # p[b]
     /\ \A a, b \in DOMAIN p : a < b => T[p[a]].priority_score >= T[p[b]].priority_score}

\* the query of get_priority_queue: the ids of the rows it returns, in order
PriorityQuery(T, limit) ==
  {SubSeq(p, 1, Min(limit, Len(p))) : p \in OrderByScoreDesc(T)}

\* sla_service.get_priority_queue; result is the list it returns
get_priority_queue(limit, result) ==
  /\ tickets' = UpdateAll(tickets, settings, now)
  /\ result \in PriorityQuery(tickets', limit)
  /\ UNCHANGED <<messages, smtp_sent, txn, eq, now, settings, sched, team, acks>>

\* datetime.utcnow() moves on
Tick(clock) ==
  /\ clock > now
  /\ now' = clock
  /\ UNCHANGED <<tickets, messages, smtp_sent, txn, eq, settings, sched, team, acks>>

\* Two unrelated mails arrive, the AI classifies them High or Medium and
\* can later classify them anew; the clock passes the instants at which a
\* default High deadline (4 hours) is passed; the SLA hours get changed; a
\* ticket can be rejected.
SlaInstants == {0, 17, 18}
SlaBatches == {<<Mail("m1")>>, <<Mail("m5")>>}
SlaResults == {AIResult("ai", "High"), AIResult("ai", "Medium")}
SlaSettingInputs ==
  {[sla_hours_high |-> 1, sla_hours_medium |-> 2, sla_hours_low |-> 3],
   [sla_hours_high |-> 10, sla_hours_medium |-> 10, sla_hours_low |-> 10]}
Limits == 1..IntakeMaxTickets

NextSla ==
  \/ \E batch \in SlaBatches, n \in 0..1 :
       fetch_emails(batch, n) /\ Bounded(IntakeMaxTickets, MaxMessages)
  \/ \E id \in 1..IntakeMaxTickets, r \in SlaResults : process_single_ticket(id, r)
  \/ \E request \in SlaSettingInputs : update_sla_settings(request)
  \/ refresh_sla_status
  \/ \E limit \in Limits : \E result \in PriorityQuery(UpdateAll(tickets, settings, now), limit) :
       get_priority_queue(limit, result)
  \/ \E clock \in SlaInstants : Tick(clock)
  \/ \E id \in 1..IntakeMaxTickets : reject_ticket(id)

SpecSla == Init /\ [][NextSla]_vars

\* a step of process_single_ticket that stored an AI result for ticket i,
\* and so ran update_ticket_sla on it
TicketRecomputed(i) ==
  /\ i \in TicketIds(tickets)
  /\ IncomingOf(messages, i) # {}
  /\ \E r \in SlaResults : process_single_ticket(i, r)

\* a step of update_all_sla_status, alone or inside get_priority_queue
AllRecomputed ==
  \/ refresh_sla_status
  \/ \E limit \in Limits : \E result \in PriorityQuery(UpdateAll(tickets, settings, now), limit) :
       get_priority_queue(limit, result)

\* the deadline as the design states it: received_at plus the configured
\* hours of the urgency, else 4, 8 or 24 hours
StatedHours(S, u) ==
  CASE u = "High" -> IF "sla_hours_high" \in DOMAIN S THEN S["sla_hours_high"] ELSE 4
    [] u = "Medium" -> IF "sla_hours_medium" \in DOMAIN S THEN S["sla_hours_medium"] ELSE 8
    [] u = "Low" -> IF "sla_hours_low" \in DOMAIN S THEN S["sla_hours_low"] ELSE 24

HasStatedDeadline(t, S) ==
  (t.urgency \in Urgencies /\ t.received_at # NoTime)
    => t.sla_deadline = t.received_at + StatedHours(S, t.urgency) * Hour

\* C12: after update_ticket_sla or update_all_sla_status, every ticket they
\* covered that has an urgency and a received_at has the deadline
\* received_at + h hours, h being the sla_hours_* setting of its urgency at
\* that moment, or 4 / 8 / 24 when the setting is absent.
SlaDeadline ==
  /\ [][\A i \in 1..IntakeMaxTickets :
          TicketRecomputed(i) => HasStatedDeadline(tickets'[i], settings)]_vars
  /\ [][AllRecomputed =>
          \A i \in OpenIds(tickets) : HasStatedDeadline(tickets'[i], settings)]_vars

\* C12 witness: a High ticket whose deadline is 10 hours after its
\* received_at, 10 being the sla_hours_high that update_sla_settings stored
SlaDeadlineWitness ==
  /\ DOMAIN settings # {}
  /\ settings["sla_hours_high"] = 10
  /\ \E i \in TicketIds(tickets) :
       /\ tickets[i].urgency = "High"
       /\ tickets[i].received_at = 0
       /\ tickets[i].sla_deadline = 10 * Hour
  /\ now = 18

\* the breach flag as the design states it
BreachFlagStated(t, clock) ==
  t.sla_deadline # NoTime =>
    (t.sla_breached <=> (clock > t.sla_deadline /\ t.sent_at = Null))

\* C13: immediately after update_ticket_sla or update_all_sla_status runs
\* at time now, every ticket it covered that has an sla_deadline has
\* sla_breached = True exactly when now > sla_deadline and sent_at is null.
BreachFlag ==
  /\ [][\A i \in 1..IntakeMaxTickets :
          TicketRecomputed(i) => BreachFlagStated(tickets'[i], now)]_vars
  /\ [][AllRecomputed =>
          \A i \in OpenIds(tickets) : BreachFlagStated(tickets'[i], now)]_vars

\* what the claim says of a returned list
QueueOk(result, T, limit) ==
  /\ Len(result) <= limit
  /\ \A a \in DOMAIN result : result[a] \in TicketIds(T) /\ Open(T[result[a]])
  /\ \A a, b \in DOMAIN result :
       a < b => T[result[a]].priority_score >= T[result[b]].priority_score
  /\ \A i \in OpenIds(T) :
       (\A a \in DOMAIN result : result[a] # i) =>
         \A a \in DOMAIN result : T[i].priority_score <= T[result[a]].priority_score

\* every open ticket carries the SLA status and the score of this instant
Recomputed(T, S, clock) ==
  \A i \in OpenIds(T) :
    /\ T[i].priority_score = StatedScore(T[i], clock)
    /\ HasStatedDeadline(T[i], S)
    /\ T[i].urgency \in Urgencies => (T[i].sla_breached <=> clock > T[i].sla_deadline)

DocumentedOrder(x, y) ==
  /\ x.sla_breached \/ ~y.sla_breached
  /\ (x.sla_breached = y.sla_breached /\ x.sla_deadline # NoTime /\ y.sla_deadline # NoTime)
       => x.sla_deadline <= y.sla_deadline
  /\ (x.sla_breached = y.sla_breached /\ x.sla_deadline = y.sla_deadline)
       => x.priority_score >= y.priority_score

\* C15: in the list GET /api/tickets/sla/priority-queue returns, every
\* breached ticket precedes every non-breached one, then tickets are in
\* order of SLA deadline (soonest first), then of priority score.
PriorityQueueOrder ==
  [][\A limit \in Limits :
       \A result \in PriorityQuery(UpdateAll(tickets, settings, now), limit) :
         get_priority_queue(limit, result) =>
           \A a, b \in DOMAIN result :
             a < b => DocumentedOrder(tickets'[result[a]], tickets'[result[b]])]_vars

(* ------------------------------ draft editing -------------------------- *)
\* the fields of a ticket other than its draft
BesideDraft(t) == [t EXCEPT !.draft_response = Null]

\* C22: update_draft changes only the draft.  For an existing ticket it
\* answers 200, replaces draft_response by the text of the request and
\* leaves approval_status, sent_at, ai_processed, every other field of the
\* ticket, its messages and every other ticket as they were; for an unknown
\* ticket id it answers 404 and changes nothing.
UpdateDraftFrame ==
  [][\A id \in IdInputs, text \in DraftInputs, status \in StatusCodes :
       update_draft(id, text, status) =>
         /\ messages' = messages /\ smtp_sent' = smtp_sent
         /\ Len(tickets') = Len(tickets)
         /\ \A i \in TicketIds(tickets) : i # id => tickets'[i] = tickets[i]
         /\ IF id \in TicketIds(tickets)
              THEN /\ status = 200
                   /\ tickets'[id].draft_response = text
                   /\ tickets'[id].approval_status = tickets[id].approval_status
                   /\ tickets'[id].sent_at = tickets[id].sent_at
                   /\ tickets'[id].ai_processed = tickets[id].ai_processed
                   /\ BesideDraft(tickets'[id]) = BesideDraft(tickets[id])
              ELSE status = 404 /\ tickets' = tickets]_vars

\* C22 witness: a ticket whose reply has been sent is still APPROVED,
\* processed and sent after update_draft has emptied its draft
UpdateDraftFrameWitness ==
  \E i \in TicketIds(tickets) :
    /\ tickets[i].draft_response = ""
    /\ tickets[i].approval_status = APPROVED
    /\ tickets[i].sent_at = Stamp
    /\ tickets[i].ai_processed
    /\ \E k \in 1..Len(messages) : ~messages[k].is_incoming /\ messages[k].ticket_id = i

(* -------------------------------- bulk send ---------------------------- *)
\* the three early returns of send_approved_response, on the table T
BulkRefused(T, id) ==
  \/ id \notin TicketIds(T)
  \/ T[id].approval_status # APPROVED
  \/ Falsy(T[id].draft_response)

\* one send_approved_response call of the loop of bulk_send; B is
\* [tickets, messages, smtp_sent, sent_count], success is what send_email
\* returns
BulkSendOne(B, id, success) ==
  IF BulkRefused(B.tickets, id) \/ ~success
    THEN B
    ELSE [B EXCEPT !.tickets[id].sent_at = Stamp,
                   !.tickets[id].sent_since_approval = TRUE,
                   !.messages = Append(@, NewMessage(id, FALSE, Null, B.tickets[id].message_id,
                                                     B.tickets[id].draft_response)),
                   !.smtp_sent = @ + 1,
                   !.sent_count = @ + 1]

\* the loop of bulk_send over request.ticket_ids; outcomes[k] is what
\* send_email returns in the k-th call
RECURSIVE BulkSendLoop(_, _, _)
BulkSendLoop(B, ids, outcomes) ==
  IF ids = <<>>
    THEN B
    ELSE BulkSendLoop(BulkSendOne(B, Head(ids), Head(outcomes)), Tail(ids), Tail(outcomes))

\* POST /api/tickets/bulk-send; sent is the count it returns
bulk_send(ticket_ids, outcomes, sent) ==
  LET B == BulkSendLoop([tickets |-> tickets, messages |-> messages,
                         smtp_sent |-> smtp_sent, sent_count |-> 0],
                        ticket_ids, outcomes)
  IN  /\ sent = B.sent_count
      /\ tickets' = B.tickets
      /\ messages' = B.messages
      /\ smtp_sent' = B.smtp_sent
      /\ UNCHANGED <<txn, eq, now, settings, sched, team, acks>>

\* One conversation: its mails arrive by /fetch, the AI drafts, an agent
\* edits, approves and rejects, and replies are sent one by one and in bulk;
\* a bulk request names up to two tickets, also the same ticket twice.  The
\* SLA status is refreshed and the priority queue is read in between.
BulkIdInputs == {<<id>> : id \in IdInputs} \cup {<<id, id2>> : id \in IdInputs, id2 \in IdInputs}
BulkOutcomes == {<<TRUE, TRUE>>, <<FALSE, TRUE>>}
SendResults == {AIResult("ai", "High")}

NextSend ==
  \/ \E batch \in WorkflowBatches, n \in 0..1 :
       fetch_emails(batch, n) /\ Bounded(MaxTickets, MaxMessages)
  \/ \E id \in IdInputs, r \in SendResults : process_single_ticket(id, r)
  \/ \E id \in IdInputs, text \in DraftInputs, status \in StatusCodes :
       update_draft(id, text, status)
  \/ \E id \in IdInputs : approve_ticket(id)
  \/ \E id \in IdInputs : reject_ticket(id)
  \/ \E id \in IdInputs, success \in BOOLEAN, result \in BOOLEAN :
       send_approved_response(id, success, result) /\ Bounded(MaxTickets, MaxMessages)
  \/ \E ids \in BulkIdInputs, outcomes \in BulkOutcomes, sent \in 0..2 :
       bulk_send(ids, outcomes, sent) /\ Bounded(MaxTickets, MaxMessages)
  \/ refresh_sla_status
  \/ \E limit \in Limits : \E result \in PriorityQuery(UpdateAll(tickets, settings, now), limit) :
       get_priority_queue(limit, result)

SpecSend == Init /\ [][NextSend]_vars

\* the outgoing messages of ticket i
OutgoingOf(M, i) == {k \in 1..Len(M) : M[k].ticket_id = i /\ ~M[k].is_incoming}

\* C24: each approval releases at most one reply.  A step that records an
\* outgoing message for a ticket, or hands a reply of it to SMTP, records
\* one message only, and the ticket has had no reply sent since the last
\* approve_ticket call on it.
OneReplyPerApproval ==
  [][ /\ \A i \in TicketIds(tickets) :
           OutgoingOf(messages', i) # OutgoingOf(messages, i) =>
             /\ Cardinality(OutgoingOf(messages', i)) = Cardinality(OutgoingOf(messages, i)) + 1
             /\ ~tickets[i].sent_since_approval
      /\ smtp_sent' <= smtp_sent + 1
    ]_vars

\* C25: a follow-up re-opens the ticket.  When fetch_emails appends a
\* customer follow-up to a ticket whose reply had been sent, the ticket is
\* PENDING and unprocessed afterwards and is an open ticket again (sent_at
\* null, not REJECTED): update_all_sla_status covers it and
\* get_priority_queue can return it.
FollowUpReopens ==
  [][\A i \in TicketIds(tickets) :
       (/\ tickets[i].sent_at # Null
        /\ FollowUpNow(i)
        /\ \E batch \in WorkflowBatches, n \in 0..1 : fetch_emails(batch, n))
         => /\ tickets'[i].approval_status = PENDING
            /\ ~tickets'[i].ai_processed
            /\ Open(tickets'[i])
            /\ \E limit \in Limits :
                 \E result \in PriorityQuery(UpdateAll(tickets', settings, now), limit) :
                   \E a \in DOMAIN result : result[a] = i]_vars

\* a send of ticket i that succeeds: /send, or a bulk send that names i
SuccessfulSend(i) ==
  \/ send_approved_response(i, TRUE, TRUE)
  \/ \E ids \in BulkIdInputs, outcomes \in BulkOutcomes, sent \in 1..2 :
       /\ \E k \in DOMAIN ids : ids[k] = i
       /\ bulk_send(ids, outcomes, sent)

\* C26: sent_at and the outgoing log agree.  In every reachable state a
\* ticket has sent_at non-null exactly when it has an outgoing message;
\* every outgoing message is added by a successful send_approved_response
\* on a ticket that is APPROVED, which hands the reply to SMTP; no step
\* removes or alters a stored message, and no step clears sent_at.
SentAtMatchesLog ==
  /\ [](\A i \in TicketIds(tickets) :
          tickets[i].sent_at # Null <=> OutgoingOf(messages, i) # {})
  /\ [](\A k \in 1..Len(messages) : messages[k].ticket_id \in TicketIds(tickets))
  /\ [][ /\ Len(messages') >= Len(messages)
          /\ SubSeq(messages', 1, Len(messages)) = messages
          /\ \A i \in TicketIds(tickets) :
               /\ tickets[i].sent_at # Null => tickets'[i].sent_at # Null
               /\ OutgoingOf(messages', i) # OutgoingOf(messages, i) =>
                    /\ tickets[i].approval_status = APPROVED
                    /\ smtp_sent' > smtp_sent
                    /\ SuccessfulSend(i)
        ]_vars

\* C26 witness: the reply of a ticket was sent, a follow-up reset the
\* ticket, the AI processed it again and an agent rejected it: sent_at is
\* still set and the one outgoing message is still there
SentAtMatchesLogWitness ==
  /\ Len(tickets) = 1 /\ Len(messages) = 3
  /\ tickets[1].sent_at = Stamp
  /\ tickets[1].approval_status = REJECTED
  /\ tickets[1].ai_processed
  /\ ~messages[2].is_incoming
  /\ messages[3].is_incoming /\ messages[3].message_id = "m2"
  /\ smtp_sent = 1

(* ------------------------------ SMTP failure --------------------------- *)
\* C16: when send_email fails, send_approved_response returns False and
\* leaves sent_at, the messages and approval_status as they were; nothing
\* but an explicit send that succeeds hands a reply to SMTP; and the
\* explicit send of the same ticket can still succeed afterwards.  Stated
\* under Spec for every state in which a ticket is APPROVED with a draft.
SmtpFailure ==
  /\ [](\A id \in IdInputs :
          ReadyToSend(id) =>
            /\ ~ENABLED send_approved_response(id, FALSE, TRUE)
            /\ ENABLED send_approved_response(id, FALSE, FALSE)
            /\ ~ENABLED (/\ send_approved_response(id, FALSE, FALSE)
                         /\ <<tickets, messages, smtp_sent>>' # <<tickets, messages, smtp_sent>>)
            /\ ENABLED (/\ send_approved_response(id, TRUE, TRUE)
                        /\ tickets'[id].sent_at = Stamp))
  /\ [][smtp_sent' # smtp_sent =>
          \E id \in IdInputs : send_approved_response(id, TRUE, TRUE)]_vars

\* C16 witness: a ticket that is APPROVED with a draft and unsent, where a
\* send whose send_email fails is refused and changes nothing
SmtpFailureWitness ==
  \E i \in TicketIds(tickets) :
    /\ ReadyToSend(i)
    /\ tickets[i].sent_at = Null
    /\ smtp_sent = 0
    /\ \A k \in 1..Len(messages) : messages[k].is_incoming

(* ------------------------- recovery from AI failure -------------------- *)
\* Mail arrives through /fetch and through the background poll; the AI call
\* of a poll fails or returns a result with a known or an unknown urgency.
\* Polls keep running and the AI call succeeds again and again: a poll
\* whose AI calls all succeed is taken whenever it stays possible.
RecoverSuccess == {AIResult("ai", "High"), AIResult("ai", "Urgent")}
RecoverResults == {AIFailed} \cup RecoverSuccess

PollAISucceeds ==
  \E batch \in WorkflowPollBatches :
    fetch_and_process_emails_sync(batch, RecoverSuccess) /\ Bounded(MaxTickets, MaxMessages)

NextRecover ==
  \/ \E batch \in WorkflowBatches, n \in 0..1 :
       fetch_emails(batch, n) /\ Bounded(MaxTickets, MaxMessages)
  \/ \E batch \in WorkflowPollBatches :
       fetch_and_process_emails_sync(batch, RecoverResults) /\ Bounded(MaxTickets, MaxMessages)
  \/ \E clock \in SlaInstants : Tick(clock)

SpecRecover == Init /\ [][NextRecover]_vars /\ WF_vars(PollAISucceeds)

\* what an AI result writes into a ticket
AIFields(t) == <<t.ai_processed, t.urgency, t.draft_response, t.sla_deadline>>

\* ticket i waits for the AI: it has an incoming message and is unprocessed
AwaitsAI(i) ==
  /\ i \in TicketIds(tickets)
  /\ IncomingOf(messages, i) # {}
  /\ ~tickets[i].ai_processed

\* ticket i carries an AI result and the deadline computed from it
HasAIResult(i) ==
  /\ i \in TicketIds(tickets)
  /\ tickets[i].ai_processed
  /\ \E r \in RecoverSuccess :
       /\ tickets[i].draft_response = r.draft
       /\ tickets[i].urgency = r.urgency
  /\ tickets[i].sla_deadline =
       calculate_sla_deadline(settings, tickets[i].urgency, tickets[i].received_at)

\* C17: a poll whose AI calls fail leaves ai_processed False and the AI
\* fields of every ticket as they were; and while polls keep running and
\* the AI call succeeds again, every ticket that has an incoming message
\* and ai_processed = False eventually has ai_processed = True, the AI
\* result stored and its SLA deadline computed.
AIFailureRecoverable ==
  /\ [][\A batch \in WorkflowPollBatches :
          fetch_and_process_emails_sync(batch, {AIFailed}) =>
            \A i \in TicketIds(tickets) : AIFields(tickets'[i]) = AIFields(tickets[i])]_vars
  /\ \A i \in 1..MaxTickets : AwaitsAI(i) ~> HasAIResult(i)

\* C17 witness: a ticket received at 0 that waited, unprocessed, until a
\* poll at 17 stored an AI result and the deadline
AIFailureRecoverableWitness ==
  \E i \in TicketIds(tickets) :
    /\ HasAIResult(i)
    /\ tickets[i].received_at = 0
    /\ now = 17
    /\ tickets[i].priority_score = calculate_priority_score(tickets[i], 17)

(* --------------------------- auto-acknowledgment ----------------------- *)
\* POST /api/settings/auto-responder; a template that is None or empty is
\* not stored
update_auto_responder_settings(enabled, template) ==
  /\ LET S1 == [k \in DOMAIN settings \cup {"auto_responder_enabled"} |->
                  IF k = "auto_responder_enabled"
                    THEN (IF enabled THEN "true" ELSE "false")
                    ELSE settings[k]]
     IN  settings' = IF template # <<>>
                       THEN [k \in DOMAIN S1 \cup {"auto_responder_template"} |->
                               IF k = "auto_responder_template" THEN template ELSE S1[k]]
                       ELSE S1
  /\ UNCHANGED <<tickets, messages, smtp_sent, txn, eq, now, sched, team, acks>>

\* The auto-responder is switched on and off, with no template, with one
\* that formats and with one that names a field format() is not given;
\* /fetch brings every mail, alone and in batches of two.
TemplateInputs == {<<>>, <<"text", "ticket_id">>, <<"text", "name">>}

NextAck ==
  \/ \E batch \in Batches, n \in 0..2 :
       fetch_emails(batch, n) /\ Bounded(IntakeMaxTickets, MaxMessages)
  \/ \E enabled \in BOOLEAN, template \in TemplateInputs :
       update_auto_responder_settings(enabled, template)

SpecAck == Init /\ [][NextAck]_vars

\* the acknowledgments of a log that name ticket i
AcksOf(log, i) == {k \in 1..Len(log) : log[k].ticket_id = i}

\* the auto-responder is on: the setting has the value "true"
AutoResponderOn ==
  "auto_responder_enabled" \in DOMAIN settings /\ settings["auto_responder_enabled"] = "true"

\* C23: a call of fetch_emails hands exactly one acknowledgment to
\* send_email for each ticket it creates, addressed to the sender of the
\* ticket, when auto_responder_enabled is "true", and none for a mail it
\* skips or appends to a thread, and none at all when the auto-responder
\* is off; in every reachable state no ticket has more than one
\* acknowledgment and every acknowledgment names a ticket.
AutoAcknowledgment ==
  /\ [][\A batch \in Batches, n \in 0..2 :
          fetch_emails(batch, n) =>
            LET new == SubSeq(acks', Len(acks) + 1, Len(acks'))
                created == (Len(tickets) + 1)..Len(tickets')
            IN  /\ SubSeq(acks', 1, Len(acks)) = acks
                /\ ~AutoResponderOn => new = <<>>
                /\ \A k \in 1..Len(new) : new[k].ticket_id \in created
                /\ AutoResponderOn =>
                     \A i \in created :
                       /\ Cardinality(AcksOf(new, i)) = 1
                       /\ \A k \in AcksOf(new, i) : new[k].to_email = tickets'[i].sender_email
         ]_vars
  /\ [](\A i \in 1..IntakeMaxTickets : Cardinality(AcksOf(acks, i)) <= 1)
  /\ [](\A k \in 1..Len(acks) : acks[k].ticket_id \in TicketIds(tickets))

\* C23 witness: two tickets were created while the auto-responder was on,
\* each has its acknowledgment (one delivered, one not); a follow-up was
\* appended to the first ticket without one, and the auto-responder is on
AutoAcknowledgmentWitness ==
  /\ AutoResponderOn
  /\ Len(tickets) = 2 /\ Len(messages) = 3 /\ Len(acks) = 2
  /\ messages[3].ticket_id = 1 /\ messages[3].message_id = "m2"
  /\ acks[1].ticket_id = 1 /\ acks[1].delivered
  /\ acks[2].ticket_id = 2 /\ ~acks[2].delivered

(* ---------------------------- team assignment ------------------------- *)
\* models.TeamMember with the column defaults
NewMember(email) == [email |-> email, is_active |-> TRUE, deleted |-> FALSE]

\* db.query(TeamMember).filter(TeamMember.id == member_id).first()
MemberExists(m) == m \in 1..Len(team) /\ ~team[m].deleted

\* POST /api/team/: 400 when a member has the e-mail address
create_team_member(email) ==
  /\ IF \E m \in 1..Len(team) : MemberExists(m) /\ team[m].email = email
       THEN UNCHANGED team
       ELSE team' = Append(team, NewMember(email))
  /\ UNCHANGED <<tickets, messages, smtp_sent, txn, eq, now, settings, sched, acks>>

\* PUT /api/team/{member_id} with is_active alone in the request
update_team_member(m, is_active) ==
  /\ IF MemberExists(m)
       THEN team' = [team EXCEPT ![m].is_active = is_active]
       ELSE UNCHANGED team
  /\ UNCHANGED <<tickets, messages, smtp_sent, txn, eq, now, settings, sched, acks>>

\* DELETE /api/team/{member_id}: the foreign key of tickets.assigned_to
\* refuses the DELETE of a member a ticket is assigned to
delete_team_member(m) ==
  /\ IF MemberExists(m) /\ \A i \in TicketIds(tickets) : tickets[i].assigned_to # m
       THEN team' = [team EXCEPT ![m].deleted = TRUE]
       ELSE UNCHANGED team
  /\ UNCHANGED <<tickets, messages, smtp_sent, txn, eq, now, settings, sched, acks>>

\* POST /api/tickets/{ticket_id}/assign; m is request.team_member_id,
\* status is the HTTP status of the answer
assign_ticket(id, m, status) ==
  /\ IF id \notin TicketIds(tickets)
       THEN status = 404 /\ UNCHANGED tickets
       ELSE IF m # NoMember
         THEN IF ~MemberExists(m)
                THEN status = 404 /\ UNCHANGED tickets
                ELSE /\ status = 200
                     /\ tickets' = [tickets EXCEPT ![id].assigned_to = m,
                                                     ![id].assigned_at = now]
         ELSE /\ status = 200
              /\ tickets' = [tickets EXCEPT ![id].assigned_to = NoMember,
                                              ![id].assigned_at = NoTime]
  /\ UNCHANGED <<messages, smtp_sent, txn, eq, now, settings, sched, team, acks>>

\* One mail arrives and becomes a ticket; members are created, switched
\* between active and inactive and deleted; the ticket is assigned to a
\* member, to an id without a member, or to nobody, while time passes.
MaxMembers == 2
MemberEmails == {"x", "y"}
MemberInputs == 0..(MaxMembers + 1)
AssignInstants == {0, 17}
AssignBatches == {<<Mail("m1")>>}

NextAssign ==
  \/ \E batch \in AssignBatches, n \in 0..1 :
       fetch_emails(batch, n) /\ Bounded(MaxTickets, MaxMessages)
  \/ \E email \in MemberEmails : create_team_member(email) /\ Len(team') <= MaxMembers
  \/ \E m \in MemberInputs, is_active \in BOOLEAN : update_team_member(m, is_active)
  \/ \E m \in MemberInputs : delete_team_member(m)
  \/ \E id \in IdInputs, m \in MemberInputs, status \in StatusCodes :
       assign_ticket(id, m, status)
  \/ \E clock \in AssignInstants : Tick(clock)

SpecAssign == Init /\ [][NextAssign]_vars

\* the assignment of ticket id
Assignment(T, id) == <<T[id].assigned_to, T[id].assigned_at>>

\* C21: assign_ticket assigns a ticket only to an existing, active team
\* member: with the id of a missing member it answers 404 and leaves
\* assigned_to and assigned_at as they were, with the id of a member whose
\* is_active is False it leaves them as they were too, and with
\* team_member_id = None it clears both.
AssignmentTarget ==
  [][\A id \in TicketIds(tickets), m \in MemberInputs, status \in StatusCodes :
       assign_ticket(id, m, status) =>
         /\ (m # NoMember /\ ~MemberExists(m)) =>
               status = 404 /\ Assignment(tickets', id) = Assignment(tickets, id)
         /\ (MemberExists(m) /\ ~team[m].is_active) =>
               Assignment(tickets', id) = Assignment(tickets, id)
         /\ (MemberExists(m) /\ team[m].is_active) =>
               Assignment(tickets', id) = <<m, now>>
         /\ m = NoMember => Assignment(tickets', id) = <<NoMember, NoTime>>]_vars

(* ------------------------------ the scheduler -------------------------- *)
\* interval_minutes without the lower limit
ClampNoFloor(n) == IF n > 60 THEN 60 ELSE n

\* max(MIN_INTERVAL_MINUTES, min(MAX_INTERVAL_MINUTES, interval_minutes))
Clamp(n) ==
  LET m == IF n < 60 THEN n ELSE 60
  IN  IF m > 1 THEN m ELSE 1

\* Thread.is_alive()
Alive(S, t) == t # NoThread /\ S.loop[t].pc \notin {"unborn", "ended"}

\* stop_scheduler from _stop_event.set() on: the event wakes the threads
\* that wait on it; the call then joins _scheduler_thread, or drops the
\* reference at once when there is no live thread to join
BeginStop(S, next) ==
  LET S1 == [S EXCEPT
               !.stop_event = TRUE,
               !.running = FALSE,
               !.loop = [t \in Threads |->
                           [S.loop[t] EXCEPT
                              !.pc = IF @ = "wait" THEN "exiting" ELSE @,
                              !.wait_seconds = IF S.loop[t].pc = "wait" THEN 0 ELSE @,
                              !.stopped = @ \/ (t = S.thread /\ Alive(S, t))]]]
  IN  IF Alive(S, S.thread)
        THEN [S1 EXCEPT !.call.pc = "join", !.call.next = next]
        ELSE [S1 EXCEPT !.thread = NoThread, !.call.pc = next, !.call.next = "idle"]

TicketsUnchanged ==
  UNCHANGED <<tickets, messages, smtp_sent, txn, eq, now, settings, team, acks>>

\* scheduler_service.stop_scheduler up to its join
stop_scheduler ==
  /\ sched.call.pc = "idle"
  /\ IF ~sched.running
       THEN UNCHANGED sched
       ELSE sched' = BeginStop(sched, "idle")
  /\ TicketsUnchanged

\* scheduler_service.start_scheduler up to the join of the stop_scheduler
\* it calls when a loop is running
start_scheduler(n) ==
  /\ sched.call.pc = "idle"
  /\ LET S == [sched EXCEPT !.call.n = Clamp(n), !.call.arg = n]
     IN  IF sched.running /\ Alive(sched, sched.thread)
           THEN sched' = BeginStop(S, "start")
           ELSE sched' = [S EXCEPT !.call.pc = "start"]
  /\ TicketsUnchanged

\* POST /api/settings/scheduler with enabled = true: stop_scheduler(), then
\* start_scheduler(n), which finds _scheduler_running False
update_scheduler(n) ==
  /\ sched.call.pc = "idle"
  /\ LET S == [sched EXCEPT !.call.n = Clamp(n), !.call.arg = n]
     IN  IF ~sched.running
           THEN sched' = [S EXCEPT !.call.pc = "start"]
           ELSE sched' = BeginStop(S, "start")
  /\ TicketsUnchanged

\* _scheduler_thread.join(timeout=5) returns, the thread having ended or
\* the 5 seconds having passed while its fetch cycle is still in progress;
\* stop_scheduler then drops the reference
StopJoin ==
  /\ sched.call.pc = "join"
  /\ sched.loop[sched.thread].pc \in {"ended", "fetch"}
  /\ sched' = [sched EXCEPT !.thread = NoThread, !.call.pc = sched.call.next,
                            !.call.next = "idle"]
  /\ TicketsUnchanged

\* start_scheduler from _stop_event.clear() on; t is the thread it creates
StartThread(t) ==
  /\ sched.call.pc = "start"
  /\ sched.loop[t].pc = "unborn"
  /\ \A u \in Threads : u < t => sched.loop[u].pc # "unborn"
  /\ sched' = [sched EXCEPT !.stop_event = FALSE,
                            !.interval = sched.call.n,
                            !.running = TRUE,
                            !.thread = t,
                            !.loop[t].pc = "check",
                            !.call.pc = "idle"]
  /\ TicketsUnchanged

\* scheduler_service.update_scheduler_interval
update_scheduler_interval(n) ==
  /\ sched.call.pc = "idle"
  /\ sched' = [sched EXCEPT !.interval = Clamp(n)]
  /\ TicketsUnchanged

\* _scheduler_loop: while not _stop_event.is_set()
LoopCheck(t) ==
  /\ sched.loop[t].pc = "check"
  /\ sched' = IF sched.stop_event
                THEN [sched EXCEPT !.loop[t].pc = "exiting"]
                ELSE [sched EXCEPT !.loop[t].pc = "fetch",
                                   !.loop[t].late = sched.loop[t].stopped]
  /\ TicketsUnchanged

\* _scheduler_loop: the fetch cycle ends (the mailbox is empty and there is
\* no ticket here, so the cycle changes no table) and the thread enters
\* _stop_event.wait(timeout=wait_seconds), which returns at once when the
\* event is set
LoopFetch(t) ==
  /\ sched.loop[t].pc = "fetch"
  /\ sched' = IF sched.stop_event
                THEN [sched EXCEPT !.loop[t].pc = "exiting"]
                ELSE [sched EXCEPT !.loop[t].pc = "wait",
                                   !.loop[t].wait_seconds = sched.interval * 60]
  /\ TicketsUnchanged

\* _scheduler_loop: the wait times out
LoopTimeout(t) ==
  /\ sched.loop[t].pc = "wait"
  /\ sched' = [sched EXCEPT !.loop[t].pc = "check", !.loop[t].wait_seconds = 0]
  /\ TicketsUnchanged

\* _scheduler_loop: _scheduler_running = False after the loop
LoopExit(t) ==
  /\ sched.loop[t].pc = "exiting"
  /\ sched' = [sched EXCEPT !.running = FALSE, !.loop[t].pc = "ended"]
  /\ TicketsUnchanged

LoopStep(t) == LoopCheck(t) \/ LoopFetch(t) \/ LoopTimeout(t) \/ LoopExit(t)

\* the interval_minutes a call can pass
IntervalInputs == {-3, 0, 7, 61, 100000}

\* a call that creates a thread is made while the model has one left
ThreadLeft == \E t \in Threads : sched.loop[t].pc = "unborn"

NextSched ==
  \/ stop_scheduler
  \/ \E n \in IntervalInputs : start_scheduler(n) /\ ThreadLeft
  \/ \E n \in IntervalInputs : update_scheduler(n) /\ ThreadLeft
  \/ StopJoin
  \/ \E t \in Threads : StartThread(t)
  \/ \E n \in IntervalInputs : update_scheduler_interval(n)
  \/ \E t \in Threads : LoopCheck(t)
  \/ \E t \in Threads : LoopFetch(t)
  \/ \E t \in Threads : LoopTimeout(t)
  \/ \E t \in Threads : LoopExit(t)

\* every thread that can take a step of its loop eventually takes one
SpecSched ==
  Init /\ [][NextSched]_vars /\ \A t \in Threads : WF_vars(LoopStep(t))

\* the threads that keep running fetch cycles: alive, and either never told
\* to stop or started a cycle after a stop_scheduler call found them running
KeepsRunning(t) ==
  /\ Alive(sched, t)
  /\ ~sched.loop[t].stopped \/ sched.loop[t].late

\* C18: after any sequence of start_scheduler, stop_scheduler and
\* update_scheduler calls, at most one _scheduler_loop thread keeps running
\* fetch cycles.
SinglePollThread ==
  Cardinality({t \in Threads : KeepsRunning(t)}) <= 1

\* C19: a loop thread that a stop_scheduler call found running starts no
\* fetch cycle after that call and eventually leaves _scheduler_loop,
\* whatever calls follow; stop_scheduler called while not running changes
\* nothing.
StopStops ==
  /\ [](\A t \in Threads : ~sched.loop[t].late)
  /\ \A t \in Threads : sched.loop[t].stopped ~> (sched.loop[t].pc = "ended")
  /\ []((sched.call.pc = "idle" /\ ~sched.running) =>
          ~ENABLED (stop_scheduler /\ sched' # sched))

\* scheduler_service.get_scheduler_status()["running"]
get_scheduler_status(S) == S.running /\ S.thread # NoThread /\ Alive(S, S.thread)

\* t is the thread the latest start_scheduler created, it is alive and no
\* stop_scheduler call has found it running
LatestLive(t) ==
  /\ sched.loop[t].pc # "unborn"
  /\ \A u \in Threads : u > t => sched.loop[u].pc = "unborn"
  /\ Alive(sched, t)
  /\ ~sched.loop[t].stopped

\* C27: the running flag tracks the live loop.  Whenever the loop thread
\* the latest start_scheduler created is alive and has not been told to
\* stop, _scheduler_running is True, get_scheduler_status reports running,
\* and a stop_scheduler call made then signals that thread; a thread that
\* leaves _scheduler_loop while a newer loop is live leaves the flag True.
RunningFlagTracksLoop ==
  /\ [](\A t \in Threads :
          LatestLive(t) =>
            /\ sched.running
            /\ get_scheduler_status(sched)
            /\ sched.call.pc = "idle" =>
                 ENABLED (stop_scheduler /\ sched'.stop_event /\ sched'.loop[t].stopped))
  /\ [][\A t \in Threads :
          (LoopExit(t) /\ \E u \in Threads : u # t /\ LatestLive(u)) => sched'.running]_vars

\* the interval as the design states it
StatedClamp(n) ==
  CASE n < 1 -> 1
    [] n > 60 -> 60
    [] OTHER -> n

\* C20: start_scheduler(n) and update_scheduler_interval(n) leave
\* _scheduler_interval at n clamped to 1..60, so that it is within 1..60 in
\* every reachable state; update_scheduler_interval touches no thread, and
\* a loop takes the interval of the moment when it enters a wait.
IntervalClamp ==
  /\ [](sched.interval >= 1 /\ sched.interval <= 60)
  /\ [][\A n \in IntervalInputs :
          update_scheduler_interval(n) =>
            /\ sched'.interval = StatedClamp(n)
            /\ sched'.loop = sched.loop /\ sched'.thread = sched.thread
            /\ sched'.running = sched.running /\ sched'.stop_event = sched.stop_event]_vars
  /\ [][\A t \in Threads :
          StartThread(t) => sched'.interval = StatedClamp(sched.call.arg)]_vars
  /\ [][\A t \in Threads :
          (LoopFetch(t) /\ sched'.loop[t].pc = "wait") =>
            sched'.loop[t].wait_seconds = 60 * sched.interval]_vars

\* C20 witness: the only loop ever started was started with 7 minutes; the
\* interval is 1 since update_scheduler_interval(0), and the loop waits 60
\* seconds
IntervalClampWitness ==
  /\ sched.call.arg = 7
  /\ sched.loop[1].pc = "wait"
  /\ sched.loop[2].pc = "unborn"
  /\ sched.interval = 1
  /\ sched.loop[1].wait_seconds = 60

====
